---- MODULE Spec2Model ----
(***************************************************************************)
(* go-cache: a goroutine-safe in-memory cache (Cache) with per-entry TTL   *)
(* and a duplicate-call-suppressing loader group (Group).                  *)
(*                                                                         *)
(* Every goroutine is a small program counter machine.  A step is one      *)
(* lock acquisition, or the statements between two lock operations.        *)
(* c.mtx read sections consist of one map read and are taken atomically;   *)
(* c.mtx write sections, c.umtx sections and g.mtx sections keep their     *)
(* acquire step and their body apart, so that the holder is visible.       *)
(***************************************************************************)
EXTENDS Integers, Sequences, FiniteSets, TLC

\* ---------------------------------------------------------------- bounds
MaxOps    == 3      \* public operations started in a run
MaxTime   == 2      \* clock ticks in a run

Procs     == {1, 2, 3}      \* goroutines
Keys      == {1, 2}         \* keys
NoProc    == 0      \* "lock not held"
NoCall    == 0      \* "no call record"

SetVals   == {1, 2}         \* values given to Set / SetWithExpire
IncBy     == 10             \* calc(v) = v + IncBy, the function given to Update
DefTTL    == 1              \* the duration given to New
LongTTL   == 2              \* an explicit expiration >= 1
Durations == {-1, 0, LongTTL}   \* expirations given to SetWithExpire

ErrNil      == "nil"
ErrNotFound == "ErrNotFound"
LoadErr     == "LoadErr"
LoadErrs    == {LoadErr, ErrNotFound}   \* errors the loader may return
Panic       == "panic"

\* a *time.Duration: nil, or a pointer to d
NilExp    == [isnil |-> TRUE, d |-> 0]
PtrExp(d) == [isnil |-> FALSE, d |-> d]
LoadExps  == {NilExp, PtrExp(LongTTL)}

\* what the loader may return: a value with the default expiration, another
\* value with an expiration of its own, or an error
LoadOutcomes ==
  {[val |-> 7, exp |-> NilExp, err |-> ErrNil],
   [val |-> 8, exp |-> PtrExp(LongTTL), err |-> ErrNil]}
    \cup {[val |-> 0, exp |-> NilExp, err |-> e] : e \in LoadErrs}

\* the values the loader may produce
LoadVals == {o.val : o \in {x \in LoadOutcomes : x.err = ErrNil}}

VARIABLES
  items,      \* c.items: key -> cacheItem (ok = FALSE: no entry)
  now,        \* the clock read by time.Now / time.Since
  cttl,       \* c.ttl, the default TTL
  hasLoader,  \* c.loaderExpireFunc # nil
  hasAdded,   \* c.addedFunc # nil
  mtxW,       \* goroutine holding c.mtx exclusively, or NoProc
  umtxW,      \* goroutine holding c.umtx exclusively, or NoProc
  umtxR,      \* goroutines holding c.umtx shared
  gmtx,       \* goroutine holding c.loadGroup.mtx, or NoProc
  gm,         \* c.loadGroup.m: key -> call record id, or NoCall
  calls,      \* the call records ever allocated (new(call)), by id
  loads,      \* key -> number of loader invocations so far
  nops,       \* number of public operations started so far
  gr          \* goroutine -> its position and locals

vars == <<items, now, cttl, hasLoader, hasAdded, mtxW, umtxW, umtxR, gmtx, gm, calls, loads,
          nops, gr>>

\* the goroutines that call Get in the scenarios, and one that does not
Readers == {1, 2}
Writer  == CHOOSE p \in Procs : p \notin Readers

\* ------------------------------------------------------------ cacheItem
NoItem == [ok |-> FALSE, val |-> 0, ttl |-> 0, added |-> 0]

NewItem(v, ttl, t) == [ok |-> TRUE, val |-> v, ttl |-> ttl, added |-> t]

\* (mutant) expiry at the TTL instead of after it
expiredAtTTL(item, t) ==
  IF item.ttl <= 0 THEN FALSE ELSE t - item.added >= item.ttl

\* cacheItem.expired at clock value t
expired(item, t) ==
  IF item.ttl <= 0 THEN FALSE ELSE t - item.added > item.ttl

\* ------------------------------------------------------------ goroutines
NoRes == [val |-> 0, err |-> ErrNil]

\* pc: position; op, key, arg, argd: the public operation in progress (or the
\* last one), its key, value and duration arguments; val, exp, gv, gerr: locals
\* of set, get and call; item: the item this goroutine's last set() made; ret:
\* the caller get and set return to; cid: the call record held; res, how: what
\* the last operation returned, and by which path; todo: the keys Len's loop
\* has still to visit; keys: the slice the last Keys returned; prev, pkey: the
\* public operation this goroutine ran before the one in op, and its key
Idle ==
  [pc |-> "idle", op |-> "none", key |-> 1, arg |-> 0, argd |-> 0, val |-> 0,
   exp |-> 0, item |-> NoItem, gv |-> 0, gerr |-> ErrNil, ret |-> "none",
   cid |-> NoCall, res |-> NoRes, how |-> "none", todo |-> {}, keys |-> {},
   prev |-> "none", pkey |-> 1]

\* entering a public operation
Begin(g, op, k, v, d, pc) ==
  [Idle EXCEPT !.pc = pc, !.op = op, !.key = k, !.arg = v, !.argd = d,
               !.ret = op, !.item = g.item, !.prev = g.op,
               !.pkey = g.key]

\* a public operation returns (v, e) to its caller
Finish(g, v, e, how) ==
  [Idle EXCEPT !.op = g.op, !.key = g.key, !.arg = g.arg, !.argd = g.argd,
               !.cid = g.cid, !.res = [val |-> v, err |-> e], !.how = how,
               !.item = g.item, !.keys = g.keys, !.prev = g.prev,
               !.pkey = g.pkey]

CanStart(p) == gr[p].pc = "idle" /\ nops < MaxOps

\* calc, the function given to Update
calc(v) == v + IncBy

\* ---------------------------------------------------------------- Init
InitLocks ==
  /\ mtxW = NoProc
  /\ umtxW = NoProc
  /\ umtxR = {}
  /\ gmtx = NoProc
  /\ gm = [k \in Keys |-> NoCall]
  /\ calls = <<>>
  /\ loads = [k \in Keys |-> 0]
  /\ nops = 0
  /\ gr = [p \in Procs |-> Idle]

\* New(DefTTL).LoaderExpireFunc(f)
Init ==
  /\ items = [k \in Keys |-> NoItem]
  /\ now = 0
  /\ cttl = DefTTL
  /\ hasLoader = TRUE
  /\ hasAdded = FALSE
  /\ InitLocks

\* New(0) or New(DefTTL), no loader
InitPlain ==
  /\ items = [k \in Keys |-> NoItem]
  /\ now = 0
  /\ cttl \in {0, DefTTL}
  /\ hasLoader = FALSE
  /\ hasAdded = FALSE
  /\ InitLocks

\* New(DefTTL).AddedFunc(f).LoaderExpireFunc(g)
InitHook ==
  /\ items = [k \in Keys |-> NoItem]
  /\ now = 0
  /\ cttl = DefTTL
  /\ hasLoader = TRUE
  /\ hasAdded = TRUE
  /\ InitLocks

\* New(DefTTL) and then Set(K1, OldVal) at time 0, no loader
OldVal == 1
K1     == CHOOSE k \in Keys : \A j \in Keys : k <= j

InitStored ==
  /\ items = [k \in Keys |-> IF k = K1 THEN NewItem(OldVal, DefTTL, 0) ELSE NoItem]
  /\ now = 0
  /\ cttl = DefTTL
  /\ hasLoader = FALSE
  /\ hasAdded = FALSE
  /\ InitLocks

\* ---------------------------------------------------------------- clock
Tick ==
  /\ now < MaxTime
  /\ now' = now + 1
  /\ UNCHANGED <<items, cttl, hasLoader, hasAdded, mtxW, umtxW, umtxR, gmtx, gm, calls, loads, gr, nops>>

\* ------------------------------------------------------------ Cache.get
\* (mutant) an Update that gives calc the zero value whatever c.get returned
AfterGetFromZero(g, v, e) ==
  CASE g.ret = "Get" ->
         IF e = ErrNotFound
           THEN IF hasLoader THEN [g EXCEPT !.pc = "do_lock"]
                             ELSE Finish(g, 0, ErrNotFound, "noloader")
           ELSE Finish(g, v, e, "hit")
    [] g.ret = "Do" -> [g EXCEPT !.pc = "do_chk", !.gv = v, !.gerr = e]
    [] OTHER -> [g EXCEPT !.pc = "set_rd", !.val = calc(0)]

\* (mutant) a Get that goes to the loader whatever c.get returned
AfterGetLoads(g, v, e) ==
  CASE g.ret = "Get" ->
         IF hasLoader THEN [g EXCEPT !.pc = "do_lock"]
                      ELSE Finish(g, 0, ErrNotFound, "noloader")
    [] g.ret = "Do" -> [g EXCEPT !.pc = "do_chk", !.gv = v, !.gerr = e]
    [] OTHER -> [g EXCEPT !.pc = "set_rd", !.val = calc(v)]

\* what the caller of c.get does with (v, e)
AfterGet(g, v, e) ==
  CASE g.ret = "Get" ->
         IF e = ErrNotFound
           THEN IF hasLoader THEN [g EXCEPT !.pc = "do_lock"]
                             ELSE Finish(g, 0, ErrNotFound, "noloader")
           ELSE Finish(g, v, e, "hit")
    [] g.ret = "Do" -> [g EXCEPT !.pc = "do_chk", !.gv = v, !.gerr = e]
    [] OTHER -> [g EXCEPT !.pc = "set_rd", !.val = calc(v)]

\* RLock; item, ok := c.items[key]; RUnlock; the expiry test
GetRead(p) ==
  /\ gr[p].pc = "get_rd"
  /\ mtxW = NoProc
  /\ LET g  == gr[p]
         it == items[gr[p].key]
     IN  gr' = [gr EXCEPT ![p] =
                 IF it.ok /\ ~expired(it, now) THEN AfterGet(g, it.val, ErrNil)
                 ELSE IF it.ok THEN [g EXCEPT !.pc = "get_lock"]
                 ELSE AfterGet(g, 0, ErrNotFound)]
  /\ UNCHANGED <<items, now, cttl, hasLoader, hasAdded, mtxW, umtxW, umtxR, gmtx, gm, calls, loads, nops>>

\* c.mtx.Lock() before the lazy delete
GetLock(p) ==
  /\ gr[p].pc = "get_lock"
  /\ mtxW = NoProc
  /\ mtxW' = p
  /\ gr' = [gr EXCEPT ![p].pc = "get_del"]
  /\ UNCHANGED <<items, now, cttl, hasLoader, hasAdded, umtxW, umtxR, gmtx, gm, calls, loads, nops>>

\* delete(c.items, key); Unlock; return def, ErrNotFound
GetDelete(p) ==
  /\ gr[p].pc = "get_del"
  /\ items' = [items EXCEPT ![gr[p].key] = NoItem]
  /\ mtxW' = NoProc
  /\ gr' = [gr EXCEPT ![p] = AfterGet(gr[p], 0, ErrNotFound)]
  /\ UNCHANGED <<now, cttl, hasLoader, hasAdded, umtxW, umtxR, gmtx, gm, calls, loads, nops>>

\* ------------------------------------------------------------ Cache.Get
StartGet(p, k) ==
  /\ CanStart(p)
  /\ nops' = nops + 1
  /\ gr' = [gr EXCEPT ![p] = Begin(gr[p], "Get", k, 0, 0, "get_rd")]
  /\ UNCHANGED <<items, now, cttl, hasLoader, hasAdded, mtxW, umtxW, umtxR, gmtx, gm, calls, loads>>

GetSteps(p) == GetRead(p) \/ GetLock(p) \/ GetDelete(p)

\* GetIFPresent: Get without waiting for a load
StartGetIFPresent(p, k) ==
  /\ CanStart(p)
  /\ nops' = nops + 1
  /\ gr' = [gr EXCEPT ![p] =
             [Begin(gr[p], "GetIFPresent", k, 0, 0, "get_rd") EXCEPT !.ret = "Get"]]
  /\ UNCHANGED <<items, now, cttl, hasLoader, hasAdded, mtxW, umtxW, umtxR, gmtx, gm, calls, loads>>

\* ------------------------------------------------------------ Cache.set
\* (mutant) set without the fallback to the default TTL
EffectiveTTLAsGiven(ttl) == ttl

\* if ttl < 1 { ttl = c.ttl }
EffectiveTTL(ttl) == IF ttl < 1 THEN cttl ELSE ttl

\* (mutant) a set that keeps the insertion time of the entry it finds
SetReadKeepAdded(p) ==
  /\ gr[p].pc = "set_rd"
  /\ mtxW = NoProc
  /\ LET it == items[gr[p].key]
         t  == IF it.ok THEN it.added ELSE now
     IN  gr' = [gr EXCEPT ![p].item = NewItem(gr[p].val, EffectiveTTL(gr[p].exp), t),
                          ![p].exp = 0, ![p].pc = "set_lock"]
  /\ UNCHANGED <<items, now, cttl, hasLoader, hasAdded, mtxW, umtxW, umtxR, gmtx, gm, calls, loads, nops>>

\* RLock; item, ok := c.items[key]; RUnlock; the TTL fallback; the new item
SetRead(p) ==
  /\ gr[p].pc = "set_rd"
  /\ mtxW = NoProc
  /\ gr' = [gr EXCEPT ![p].item = NewItem(gr[p].val, EffectiveTTL(gr[p].exp), now),
                      ![p].exp = 0, ![p].pc = "set_lock"]
  /\ UNCHANGED <<items, now, cttl, hasLoader, hasAdded, mtxW, umtxW, umtxR, gmtx, gm, calls, loads, nops>>

\* c.mtx.Lock() before the write
SetLock(p) ==
  /\ gr[p].pc = "set_lock"
  /\ mtxW = NoProc
  /\ mtxW' = p
  /\ gr' = [gr EXCEPT ![p].pc = "set_write"]
  /\ UNCHANGED <<items, now, cttl, hasLoader, hasAdded, umtxW, umtxR, gmtx, gm, calls, loads, nops>>

\* (mutant) the exclusive section ends without the write
SetWriteSkipped(p) ==
  /\ gr[p].pc = "set_write"
  /\ mtxW' = NoProc
  /\ gr' = [gr EXCEPT ![p].pc = "set_added"]
  /\ UNCHANGED <<items, now, cttl, hasLoader, hasAdded, umtxW, umtxR, gmtx, gm, calls, loads, nops>>

\* (mutant) the write without the Unlock after it
SetWriteNoUnlock(p) ==
  /\ gr[p].pc = "set_write"
  /\ items' = [items EXCEPT ![gr[p].key] = gr[p].item]
  /\ gr' = [gr EXCEPT ![p].pc = "set_added"]
  /\ UNCHANGED <<now, cttl, hasLoader, hasAdded, mtxW, umtxW, umtxR, gmtx, gm, calls, loads, nops>>

\* c.items[key] = item; Unlock
SetWrite(p) ==
  /\ gr[p].pc = "set_write"
  /\ items' = [items EXCEPT ![gr[p].key] = gr[p].item]
  /\ mtxW' = NoProc
  /\ gr' = [gr EXCEPT ![p].pc = "set_added"]
  /\ UNCHANGED <<now, cttl, hasLoader, hasAdded, umtxW, umtxR, gmtx, gm, calls, loads, nops>>

\* if c.addedFunc != nil { c.addedFunc(key, value) }: the hook is entered
AddedFunc(p) ==
  /\ gr[p].pc = "set_added"
  /\ hasAdded
  /\ gr' = [gr EXCEPT ![p].pc = "in_added"]
  /\ UNCHANGED <<items, now, cttl, hasLoader, hasAdded, mtxW, umtxW, umtxR, gmtx, gm, calls, loads, nops>>

\* the hook returns
AddedReturn(p) ==
  /\ gr[p].pc = "in_added"
  /\ gr' = [gr EXCEPT ![p].pc = "set_ret"]
  /\ UNCHANGED <<items, now, cttl, hasLoader, hasAdded, mtxW, umtxW, umtxR, gmtx, gm, calls, loads, nops>>

\* past the addedFunc hook, the return to set's caller:
\* Set / SetWithExpire run the deferred umtx.RUnlock, UpdateWithExpire the
\* deferred umtx.Unlock, the loader callback returns (v, nil) to Group.call
SetAdded(p) ==
  /\ \/ gr[p].pc = "set_added" /\ ~hasAdded
     \/ gr[p].pc = "set_ret"
  /\ umtxR' = IF gr[p].ret \in {"Set", "SetWithExpire"} THEN umtxR \ {p} ELSE umtxR
  /\ umtxW' = IF gr[p].ret = "Update" THEN NoProc ELSE umtxW
  /\ gr' = [gr EXCEPT ![p] =
             IF gr[p].ret = "Get"
               THEN [gr[p] EXCEPT !.pc = "call_done", !.gv = gr[p].val, !.gerr = ErrNil,
                                  !.val = 0]
               ELSE Finish(gr[p], 0, ErrNil, "write")]
  /\ UNCHANGED <<items, now, cttl, hasLoader, hasAdded, mtxW, gmtx, gm, calls, loads, nops>>

SetSteps(p) == SetRead(p) \/ SetLock(p) \/ SetWrite(p) \/ SetAdded(p)

\* the steps of the addedFunc hook
HookSteps(p) == AddedFunc(p) \/ AddedReturn(p)

\* ------------------------------------------- Cache.Set, Cache.SetWithExpire
StartSet(p, k, v) ==
  /\ CanStart(p)
  /\ nops' = nops + 1
  /\ gr' = [gr EXCEPT ![p] = [Begin(gr[p], "Set", k, v, 0, "set_ulock")
                                EXCEPT !.val = v, !.exp = 0]]
  /\ UNCHANGED <<items, now, cttl, hasLoader, hasAdded, mtxW, umtxW, umtxR, gmtx, gm, calls, loads>>

\* if expiration < 0 { expiration = c.ttl }
Expiration(d) == IF d < 0 THEN cttl ELSE d

StartSetWithExpire(p, k, v, d) ==
  /\ CanStart(p)
  /\ nops' = nops + 1
  /\ gr' = [gr EXCEPT ![p] =
             [Begin(gr[p], "SetWithExpire", k, v, d, "set_ulock")
                EXCEPT !.val = v, !.exp = Expiration(d)]]
  /\ UNCHANGED <<items, now, cttl, hasLoader, hasAdded, mtxW, umtxW, umtxR, gmtx, gm, calls, loads>>

\* (mutant) a Set that goes into set without the update lock
SetULockSkipped(p) ==
  /\ gr[p].pc = "set_ulock"
  /\ gr' = [gr EXCEPT ![p].pc = "set_rd"]
  /\ UNCHANGED <<items, now, cttl, hasLoader, hasAdded, mtxW, umtxW, umtxR, gmtx, gm, calls, loads, nops>>

\* c.umtx.RLock()
SetULock(p) ==
  /\ gr[p].pc = "set_ulock"
  /\ umtxW = NoProc
  /\ umtxR' = umtxR \cup {p}
  /\ gr' = [gr EXCEPT ![p].pc = "set_rd"]
  /\ UNCHANGED <<items, now, cttl, hasLoader, hasAdded, mtxW, umtxW, gmtx, gm, calls, loads, nops>>

\* ------------------------------------- Cache.Update, Cache.UpdateWithExpire
StartUpdateWithExpire(p, k, d) ==
  /\ CanStart(p)
  /\ nops' = nops + 1
  /\ gr' = [gr EXCEPT ![p] =
             [Begin(gr[p], "Update", k, 0, d, "upd_lock")
                EXCEPT !.exp = Expiration(d)]]
  /\ UNCHANGED <<items, now, cttl, hasLoader, hasAdded, mtxW, umtxW, umtxR, gmtx, gm, calls, loads>>

\* (mutant) Update under the shared lock that Set takes
UpdateLockShared(p) ==
  /\ gr[p].pc = "upd_lock"
  /\ umtxW = NoProc
  /\ umtxR' = umtxR \cup {p}
  /\ gr' = [gr EXCEPT ![p].pc = "get_rd"]
  /\ UNCHANGED <<items, now, cttl, hasLoader, hasAdded, mtxW, umtxW, gmtx, gm, calls, loads, nops>>

\* c.umtx.Lock(); then v, _ := c.get(key)
UpdateLock(p) ==
  /\ gr[p].pc = "upd_lock"
  /\ umtxW = NoProc
  /\ umtxR = {}
  /\ umtxW' = p
  /\ gr' = [gr EXCEPT ![p].pc = "get_rd"]
  /\ UNCHANGED <<items, now, cttl, hasLoader, hasAdded, mtxW, umtxR, gmtx, gm, calls, loads, nops>>

\* --------------------------------------------------------- Cache.Remove
StartRemove(p, k) ==
  /\ CanStart(p)
  /\ nops' = nops + 1
  /\ gr' = [gr EXCEPT ![p] = Begin(gr[p], "Remove", k, 0, 0, "rm_lock")]
  /\ UNCHANGED <<items, now, cttl, hasLoader, hasAdded, mtxW, umtxW, umtxR, gmtx, gm, calls, loads>>

\* c.mtx.Lock()
RemoveLock(p) ==
  /\ gr[p].pc = "rm_lock"
  /\ mtxW = NoProc
  /\ mtxW' = p
  /\ gr' = [gr EXCEPT ![p].pc = "rm_del"]
  /\ UNCHANGED <<items, now, cttl, hasLoader, hasAdded, umtxW, umtxR, gmtx, gm, calls, loads, nops>>

\* a Remove that leaves expired entries to Get
RemoveDeleteLive(p) ==
  /\ gr[p].pc = "rm_del"
  /\ items' = IF expired(items[gr[p].key], now) THEN items
                ELSE [items EXCEPT ![gr[p].key] = NoItem]
  /\ mtxW' = NoProc
  /\ gr' = [gr EXCEPT ![p] = Finish(gr[p], 0, ErrNil, "write")]
  /\ UNCHANGED <<now, cttl, hasLoader, hasAdded, umtxW, umtxR, gmtx, gm, calls, loads, nops>>

\* delete(c.items, key); Unlock
RemoveDelete(p) ==
  /\ gr[p].pc = "rm_del"
  /\ items' = [items EXCEPT ![gr[p].key] = NoItem]
  /\ mtxW' = NoProc
  /\ gr' = [gr EXCEPT ![p] = Finish(gr[p], 0, ErrNil, "write")]
  /\ UNCHANGED <<now, cttl, hasLoader, hasAdded, umtxW, umtxR, gmtx, gm, calls, loads, nops>>

RemoveSteps(p) == RemoveLock(p) \/ RemoveDelete(p)

\* ------------------------------------- Cache.Has, Cache.Len, Cache.Keys
\* a bool result as a number
Bool(b) == IF b THEN 1 ELSE 0

StartHas(p, k) ==
  /\ CanStart(p)
  /\ nops' = nops + 1
  /\ gr' = [gr EXCEPT ![p] = Begin(gr[p], "Has", k, 0, 0, "has_rd")]
  /\ UNCHANGED <<items, now, cttl, hasLoader, hasAdded, mtxW, umtxW, umtxR, gmtx, gm, calls, loads>>

\* (mutant) a Has that deletes the expired entry it finds, as get does
HasReadDeleting(p) ==
  /\ gr[p].pc = "has_rd"
  /\ LET it == items[gr[p].key]
     IN  /\ gr' = [gr EXCEPT ![p] =
                    Finish(gr[p], Bool(it.ok /\ ~expired(it, now)), ErrNil, "has")]
         /\ items' = IF it.ok /\ expired(it, now)
                       THEN [items EXCEPT ![gr[p].key] = NoItem] ELSE items
  /\ UNCHANGED <<now, cttl, hasLoader, hasAdded, mtxW, umtxW, umtxR, gmtx, gm, calls, loads, nops>>

\* item, ok := c.items[key]; return ok && !item.expired(): no lock is taken
HasRead(p) ==
  /\ gr[p].pc = "has_rd"
  /\ LET it == items[gr[p].key]
     IN  gr' = [gr EXCEPT ![p] =
                 Finish(gr[p], Bool(it.ok /\ ~expired(it, now)), ErrNil, "has")]
  /\ UNCHANGED <<items, now, cttl, hasLoader, hasAdded, mtxW, umtxW, umtxR, gmtx, gm, calls, loads, nops>>

\* Len(checkExpired), chk = 1 for true
StartLen(p, chk) ==
  /\ CanStart(p)
  /\ nops' = nops + 1
  /\ gr' = [gr EXCEPT ![p] = [Begin(gr[p], "Len", K1, 0, chk, "len_rd")
                                EXCEPT !.todo = IF chk = 1 THEN Keys ELSE {}]]
  /\ UNCHANGED <<items, now, cttl, hasLoader, hasAdded, mtxW, umtxW, umtxR, gmtx, gm, calls, loads>>

\* return len(c.items): no lock is taken
LenRead(p) ==
  /\ gr[p].pc = "len_rd"
  /\ gr[p].argd = 0
  /\ gr' = [gr EXCEPT ![p] =
             Finish(gr[p], Cardinality({k \in Keys : items[k].ok}), ErrNil, "len")]
  /\ UNCHANGED <<items, now, cttl, hasLoader, hasAdded, mtxW, umtxW, umtxR, gmtx, gm, calls, loads, nops>>

\* (mutant) a loop that counts the expired entries too
LenLoopCountsAll(p) ==
  /\ gr[p].pc = "len_rd"
  /\ gr[p].argd = 1
  /\ \E k \in gr[p].todo :
       LET n == gr[p].gv + Bool(items[k].ok)
       IN  gr' = [gr EXCEPT ![p] =
                   IF gr[p].todo = {k}
                     THEN Finish(gr[p], n, ErrNil, "len")
                     ELSE [gr[p] EXCEPT !.gv = n, !.todo = @ \ {k}]]
  /\ UNCHANGED <<items, now, cttl, hasLoader, hasAdded, mtxW, umtxW, umtxR, gmtx, gm, calls, loads, nops>>

\* for _, item := range c.items { if !item.expired() { length++ } }: one turn
\* of the loop, in the order the map iteration happens to take; no lock is taken
LenLoop(p) ==
  /\ gr[p].pc = "len_rd"
  /\ gr[p].argd = 1
  /\ \E k \in gr[p].todo :
       LET it == items[k]
           n  == gr[p].gv + Bool(it.ok /\ ~expired(it, now))
       IN  gr' = [gr EXCEPT ![p] =
                   IF gr[p].todo = {k}
                     THEN Finish(gr[p], n, ErrNil, "len")
                     ELSE [gr[p] EXCEPT !.gv = n, !.todo = @ \ {k}]]
  /\ UNCHANGED <<items, now, cttl, hasLoader, hasAdded, mtxW, umtxW, umtxR, gmtx, gm, calls, loads, nops>>

\* Keys(checkExpired), chk = 1 for true
StartKeys(p, chk) ==
  /\ CanStart(p)
  /\ nops' = nops + 1
  /\ gr' = [gr EXCEPT ![p] = Begin(gr[p], "Keys", K1, 0, chk, "keys_rd")]
  /\ UNCHANGED <<items, now, cttl, hasLoader, hasAdded, mtxW, umtxW, umtxR, gmtx, gm, calls, loads>>

\* RLock; the loop over c.items; RUnlock
KeysRead(p) ==
  /\ gr[p].pc = "keys_rd"
  /\ mtxW = NoProc
  /\ gr' = [gr EXCEPT ![p] =
             [Finish(gr[p], 0, ErrNil, "keys") EXCEPT !.keys =
                {k \in Keys : items[k].ok /\ (gr[p].argd = 0 \/ ~expired(items[k], now))}]]
  /\ UNCHANGED <<items, now, cttl, hasLoader, hasAdded, mtxW, umtxW, umtxR, gmtx, gm, calls, loads, nops>>

ReadSteps(p) == HasRead(p) \/ LenRead(p) \/ LenLoop(p) \/ KeysRead(p)

\* ---------------------------------------------------------- Cache.Purge
StartPurge(p) ==
  /\ CanStart(p)
  /\ nops' = nops + 1
  /\ gr' = [gr EXCEPT ![p] = Begin(gr[p], "Purge", K1, 0, 0, "purge_lock")]
  /\ UNCHANGED <<items, now, cttl, hasLoader, hasAdded, mtxW, umtxW, umtxR, gmtx, gm, calls, loads>>

\* initItems: c.mtx.Lock()
PurgeLock(p) ==
  /\ gr[p].pc = "purge_lock"
  /\ mtxW = NoProc
  /\ mtxW' = p
  /\ gr' = [gr EXCEPT ![p].pc = "purge_init"]
  /\ UNCHANGED <<items, now, cttl, hasLoader, hasAdded, umtxW, umtxR, gmtx, gm, calls, loads, nops>>

\* an initItems that resets the load group and keeps the map
PurgeInitKeepsItems(p) ==
  /\ gr[p].pc = "purge_init"
  /\ gm' = [k \in Keys |-> NoCall]
  /\ gmtx' = NoProc
  /\ mtxW' = NoProc
  /\ gr' = [gr EXCEPT ![p] = Finish(gr[p], 0, ErrNil, "write")]
  /\ UNCHANGED <<items, now, cttl, hasLoader, hasAdded, umtxW, umtxR, calls, loads, nops>>

\* initItems: c.items = make(...); c.loadGroup = Group{c: c}; Unlock.  The
\* assignment overwrites the group in place: its map is nil again and its
\* mutex is a fresh, unlocked one, whoever held the old one
PurgeInit(p) ==
  /\ gr[p].pc = "purge_init"
  /\ items' = [k \in Keys |-> NoItem]
  /\ gm' = [k \in Keys |-> NoCall]
  /\ gmtx' = NoProc
  /\ mtxW' = NoProc
  /\ calls' = [c \in DOMAIN calls |->
                 IF \E q \in Procs : gr[q].pc = "in_loader" /\ gr[q].cid = c
                   THEN [calls[c] EXCEPT !.purged = TRUE] ELSE calls[c]]
  /\ gr' = [gr EXCEPT ![p] = Finish(gr[p], 0, ErrNil, "write")]
  /\ UNCHANGED <<now, cttl, hasLoader, hasAdded, umtxW, umtxR, loads, nops>>

PurgeSteps(p) == PurgeLock(p) \/ PurgeInit(p)

\* ------------------------------------------------- Group.Do, Group.call
\* new(call): wg, val, err; with the key, the entry of the key when the record
\* was made, what the loader itself returned, and whether a Purge came while
\* its loader was running, kept for the record
NewCall(k) ==
  [key |-> k, done |-> FALSE, val |-> 0, err |-> ErrNil,
   pre |-> items[k], lval |-> 0, lexp |-> NilExp, lerr |-> ErrNil, purged |-> FALSE]

\* (mutant) the lookup never finds the record of a call in flight
LookupMiss(k) == NoCall

\* c, ok := g.m[key]
Lookup(k) == gm[k]

\* (mutant) Do without its own look into the store
StoreHitNever(g) == FALSE

\* v, err := g.c.get(key); err == nil
StoreHit(g) == g.gerr = ErrNil

\* (mutant) a joining caller that does not wait for the producer
ReleasedAlways(c) == TRUE

\* c.wg.Wait() returns
Released(c) == calls[c].done

\* what load and getWithLoader hand to Get's caller for Do's (v, err)
LoadResult(g, v, e, how) ==
  IF e # ErrNil THEN Finish(g, 0, e, how) ELSE Finish(g, v, ErrNil, how)

\* g.mtx.Lock(); then v, err := g.c.get(key)
DoLock(p) ==
  /\ gr[p].pc = "do_lock"
  /\ gmtx = NoProc
  /\ gmtx' = p
  /\ gr' = [gr EXCEPT ![p].pc = "get_rd", ![p].ret = "Do"]
  /\ UNCHANGED <<items, now, cttl, hasLoader, hasAdded, mtxW, umtxW, umtxR, gm, calls, loads, nops>>

\* g.mtx.Unlock() on a mutex that is not locked, because Purge replaced the
\* group in the meantime: "fatal error: sync: unlock of unlocked mutex"
Fatal(p) ==
  /\ gr' = [gr EXCEPT ![p].pc = "fatal"]
  /\ UNCHANGED <<items, now, cttl, hasLoader, hasAdded, mtxW, umtxW, umtxR, gmtx, gm, calls, loads, nops>>

\* the process has died
Crashed == \E p \in Procs : gr[p].pc = "fatal"

\* the goroutines that can take a step
Alive == IF Crashed THEN {} ELSE Procs

\* (mutant) Do goes on without unlocking the group
DoUnlockMissing(p) == gmtx

\* g.mtx.Unlock() on each of Do's three ways out of its locked section
DoUnlock(p) == NoProc

\* (mutant) a Do that waits whatever isWait says
IsWaitAlways(g) == TRUE

\* Do's isWait: true from Get, false from GetIFPresent
IsWait(g) == g.op # "GetIFPresent"

\* the rest of Do's locked section: the hit, the join, or the new call record;
\* the primary caller goes on into fn(), which invokes the loader, when it
\* waits, and else to the go statement
DoCheck(p) ==
  /\ gr[p].pc = "do_chk"
  /\ IF gmtx = NoProc
       THEN Fatal(p)
       ELSE
         /\ gmtx' = DoUnlock(p)
         /\ LET k == gr[p].key
            IN  IF StoreHit(gr[p])
                  THEN /\ gr' = [gr EXCEPT ![p] =
                                  LoadResult(gr[p], gr[p].gv, ErrNil, "dohit")]
                       /\ UNCHANGED <<gm, calls, loads>>
                ELSE IF Lookup(k) # NoCall
                  THEN /\ gr' = [gr EXCEPT ![p] =
                                  IF IsWait(gr[p])
                                    THEN [gr[p] EXCEPT !.pc = "do_wait", !.cid = Lookup(k),
                                                       !.gv = 0, !.gerr = ErrNil]
                                    ELSE LoadResult(gr[p], 0, ErrNotFound, "nowait")]
                       /\ UNCHANGED <<gm, calls, loads>>
                ELSE /\ calls' = Append(calls, NewCall(k))
                     /\ gm' = [gm EXCEPT ![k] = Len(calls) + 1]
                     /\ loads' = [loads EXCEPT ![k] = @ + 1]
                     /\ gr' = [gr EXCEPT ![p].pc = IF IsWait(gr[p]) THEN "in_loader" ELSE "do_go",
                                         ![p].cid = Len(calls) + 1,
                                         ![p].ret = "Get", ![p].gv = 0, ![p].gerr = ErrNil]
         /\ UNCHANGED <<items, now, cttl, hasLoader, hasAdded, mtxW, umtxW, umtxR, nops>>

\* the goroutines that a go statement may start
Spare == Procs \ Readers

\* go func() { _, _ = g.call(c, key, fn) }(); return def, false, ErrNotFound:
\* the new goroutine begins in fn(), the caller returns
DoGo(p) ==
  /\ gr[p].pc = "do_go"
  /\ \E b \in Spare :
       /\ gr[b].pc = "idle"
       /\ gr' = [gr EXCEPT
                  ![b] = [Idle EXCEPT !.pc = "in_loader", !.op = "go", !.key = gr[p].key,
                                      !.cid = gr[p].cid, !.ret = "Get"],
                  ![p] = LoadResult(gr[p], 0, ErrNotFound, "nowait")]
  /\ UNCHANGED <<items, now, cttl, hasLoader, hasAdded, mtxW, umtxW, umtxR, gmtx, gm, calls, loads, nops>>

\* c.wg.Wait(); return c.val, false, c.err
DoWait(p) ==
  /\ gr[p].pc = "do_wait"
  /\ Released(gr[p].cid)
  /\ gr' = [gr EXCEPT ![p] =
             LoadResult(gr[p], calls[gr[p].cid].val, calls[gr[p].cid].err, "wait")]
  /\ UNCHANGED <<items, now, cttl, hasLoader, hasAdded, mtxW, umtxW, umtxR, gmtx, gm, calls, loads, nops>>

\* (mutant) a callback without its early return on an error
LoaderCallbackNoErrCheck(g, v, x, e) ==
  [g EXCEPT !.pc = "set_rd", !.val = v, !.exp = IF x.isnil THEN 0 ELSE x.d]

\* (mutant) a callback that stores every value with ttl 0, whatever the
\* expiration the loader gave
LoaderCallbackNoExpiry(g, v, x, e) ==
  IF e # ErrNil
    THEN [g EXCEPT !.pc = "call_done", !.gv = 0, !.gerr = e]
    ELSE [g EXCEPT !.pc = "set_rd", !.val = v, !.exp = 0]

\* the loader returns (v, expiration, e); getWithLoader's callback returns
\* (def, e) on an error and otherwise goes into c.set(key, v, ttl)
LoaderCallback(g, v, x, e) ==
  IF e # ErrNil
    THEN [g EXCEPT !.pc = "call_done", !.gv = 0, !.gerr = e]
    ELSE [g EXCEPT !.pc = "set_rd", !.val = v, !.exp = IF x.isnil THEN 0 ELSE x.d]

LoaderOutcome(p, v, x, e) ==
  /\ gr' = [gr EXCEPT ![p] = LoaderCallback(gr[p], v, x, e)]
  /\ calls' = [calls EXCEPT ![gr[p].cid] = [@ EXCEPT !.lval = v, !.lexp = x, !.lerr = e]]

LoaderReturn(p) ==
  /\ gr[p].pc = "in_loader"
  /\ \E o \in LoadOutcomes : LoaderOutcome(p, o.val, o.exp, o.err)
  /\ UNCHANGED <<items, now, cttl, hasLoader, hasAdded, mtxW, umtxW, umtxR, gmtx, gm, loads, nops>>

\* the loader panics: nothing on the way from fn() up to Get's caller recovers
\* or defers, so the goroutine leaves Get by the panic, before c.wg.Done()
\* and before delete(g.m, key)
LoaderPanic(p) ==
  /\ gr[p].pc = "in_loader"
  /\ gr' = [gr EXCEPT ![p].pc = "panicked", ![p].how = Panic]
  /\ calls' = [calls EXCEPT ![gr[p].cid] = [@ EXCEPT !.lerr = Panic]]
  /\ UNCHANGED <<items, now, cttl, hasLoader, hasAdded, mtxW, umtxW, umtxR, gmtx, gm, loads, nops>>

\* c.val, c.err = fn(); c.wg.Done()
CallDone(p) ==
  /\ gr[p].pc = "call_done"
  /\ calls' = [calls EXCEPT ![gr[p].cid] =
                 [@ EXCEPT !.done = TRUE, !.val = gr[p].gv, !.err = gr[p].gerr]]
  /\ gr' = [gr EXCEPT ![p].pc = "call_lock"]
  /\ UNCHANGED <<items, now, cttl, hasLoader, hasAdded, mtxW, umtxW, umtxR, gmtx, gm, loads, nops>>

\* g.mtx.Lock()
CallLock(p) ==
  /\ gr[p].pc = "call_lock"
  /\ gmtx = NoProc
  /\ gmtx' = p
  /\ gr' = [gr EXCEPT ![p].pc = "call_del"]
  /\ UNCHANGED <<items, now, cttl, hasLoader, hasAdded, mtxW, umtxW, umtxR, gm, calls, loads, nops>>

\* (mutant) the record is removed only when the producer returned a value
CallDeleteOnSuccess(p) ==
  /\ gr[p].pc = "call_del"
  /\ gm' = IF calls[gr[p].cid].err = ErrNil THEN [gm EXCEPT ![gr[p].key] = NoCall] ELSE gm
  /\ gmtx' = NoProc
  /\ gr' = [gr EXCEPT ![p] =
             LoadResult(gr[p], calls[gr[p].cid].val, calls[gr[p].cid].err, "primary")]
  /\ UNCHANGED <<items, now, cttl, hasLoader, hasAdded, mtxW, umtxW, umtxR, calls, loads, nops>>

\* delete(g.m, key); Unlock; return c.val, c.err
CallDelete(p) ==
  /\ gr[p].pc = "call_del"
  /\ IF gmtx = NoProc
       THEN Fatal(p)
       ELSE
         /\ gm' = [gm EXCEPT ![gr[p].key] = NoCall]
         /\ gmtx' = NoProc
         /\ gr' = [gr EXCEPT ![p] =
                    LoadResult(gr[p], calls[gr[p].cid].val, calls[gr[p].cid].err, "primary")]
         /\ UNCHANGED <<items, now, cttl, hasLoader, hasAdded, mtxW, umtxW, umtxR, calls, loads, nops>>

DoSteps(p) ==
  DoLock(p) \/ DoCheck(p) \/ DoWait(p) \/ LoaderReturn(p) \/ CallDone(p)
    \/ CallLock(p) \/ CallDelete(p)

\* ------------------------------------------------------ specifications
\* concurrent Get calls on a cache with a loader, while one more goroutine makes
\* one call of Set, Update or Remove, and the clock
WriterOps == IF gr[Writer].op = "none" THEN 0 ELSE 1

Next ==
  \/ Tick
  \/ \E p \in Readers : nops - WriterOps < MaxOps - 1 /\ StartGet(p, K1)
  \/ WriterOps = 0 /\ StartSet(Writer, K1, 1)
  \/ WriterOps = 0 /\ StartUpdateWithExpire(Writer, K1, 0)
  \/ WriterOps = 0 /\ StartRemove(Writer, K1)
  \/ \E p \in Procs :
       \/ GetSteps(p) \/ DoSteps(p) \/ SetULock(p) \/ SetSteps(p)
       \/ UpdateLock(p) \/ RemoveSteps(p)

Spec == Init /\ [][Next]_vars

\* every goroutine calls Get on one key of an empty cache with a loader
NextLoad ==
  \/ Tick
  \/ \E p \in Procs : StartGet(p, K1) \/ GetSteps(p) \/ DoSteps(p) \/ SetSteps(p)

SpecLoad == Init /\ [][NextLoad]_vars

\* the same, with a loader that may panic
NextPanic == NextLoad \/ \E p \in Procs : LoaderPanic(p)

SpecPanic == Init /\ [][NextPanic]_vars

\* every goroutine calls Update on a stored key
NextUpdate ==
  \/ Tick
  \/ \E p \in Procs :
       \/ StartUpdateWithExpire(p, K1, 0)
       \/ UpdateLock(p) \/ GetSteps(p) \/ SetSteps(p)

SpecUpdate == InitStored /\ [][NextUpdate]_vars

\* goroutine 1 calls Get on a stored key while goroutine 2 calls Set on it
\* once and then Get
NewVal == 2

NextExpire ==
  \/ Tick
  \/ StartGet(1, K1)
  \/ gr[2].op = "none" /\ StartSet(2, K1, NewVal)
  \/ gr[2].op # "none" /\ StartGet(2, K1)
  \/ \E p \in Procs : GetSteps(p) \/ SetULock(p) \/ SetSteps(p)

SpecExpire == InitStored /\ [][NextExpire]_vars

\* one goroutine calls Set, SetWithExpire and Get, one call after the other
NextSeq ==
  \/ Tick
  \/ StartGet(1, K1)
  \/ \E v \in SetVals : StartSet(1, K1, v)
  \/ \E v \in SetVals, d \in Durations : StartSetWithExpire(1, K1, v, d)
  \/ GetSteps(1) \/ SetULock(1) \/ SetSteps(1)

SpecSeq == InitPlain /\ [][NextSeq]_vars

\* goroutine 1 reads a stored key with Get, Has, Len and Keys while goroutine 2
\* writes it with Set, Update, Remove and Purge
NextRace ==
  \/ Tick
  \/ StartGet(1, K1) \/ StartHas(1, K1)
  \/ \E chk \in {0, 1} : StartLen(1, chk) \/ StartKeys(1, chk)
  \/ StartSet(2, K1, NewVal) \/ StartUpdateWithExpire(2, K1, 0)
  \/ StartRemove(2, K1) \/ StartPurge(2)
  \/ \E p \in Procs :
       \/ GetSteps(p) \/ ReadSteps(p) \/ SetULock(p) \/ SetSteps(p)
       \/ UpdateLock(p) \/ RemoveSteps(p) \/ PurgeSteps(p)

SpecRace == InitStored /\ [][NextRace]_vars

\* a cache with an addedFunc hook and a loader: Set, SetWithExpire, Update
\* and Get from two goroutines
NextHook ==
  \/ Tick
  \/ \E p \in Readers :
       \/ StartGet(p, K1)
       \/ StartSet(p, K1, NewVal)
       \/ StartSetWithExpire(p, K1, NewVal, LongTTL)
       \/ StartUpdateWithExpire(p, K1, 0)
       \/ GetSteps(p) \/ DoSteps(p) \/ SetULock(p) \/ SetSteps(p) \/ HookSteps(p)
       \/ UpdateLock(p)

SpecHook == InitHook /\ [][NextHook]_vars

\* goroutine 1 loads key K1 once, while goroutine 2 calls Get on key K2, whose
\* entry is there but expired, and a
\* third goroutine makes one call of Get, Set, Update or Remove on K2
K2 == CHOOSE k \in Keys : k # K1

NextKeys ==
  \/ gr[1].op = "none" /\ StartGet(1, K1)
  \/ WriterOps = 0 /\ StartGet(Writer, K2)
  \/ \E p \in Readers \ {1} : StartGet(p, K2)
  \/ WriterOps = 0 /\ StartSet(Writer, K2, NewVal)
  \/ WriterOps = 0 /\ StartUpdateWithExpire(Writer, K2, 0)
  \/ WriterOps = 0 /\ StartRemove(Writer, K2)
  \/ \E p \in Procs :
       \/ GetSteps(p) \/ DoSteps(p) \/ SetULock(p) \/ SetSteps(p)
       \/ UpdateLock(p) \/ RemoveSteps(p)

\* New(DefTTL).LoaderExpireFunc(f), Set(K2, OldVal) at time 0, and the clock
\* at MaxTime
InitKeys ==
  /\ items = [k \in Keys |-> IF k = K2 THEN NewItem(OldVal, DefTTL, 0) ELSE NoItem]
  /\ now = MaxTime
  /\ cttl = DefTTL
  /\ hasLoader = TRUE
  /\ hasAdded = FALSE
  /\ InitLocks

SpecKeys == InitKeys /\ [][NextKeys]_vars

\* concurrent Get calls on a cache with a loader, while one more goroutine
\* calls Purge once; the process stops at a fatal error
NextPurge ==
  \/ ~Crashed /\ Tick
  \/ \E p \in Alive \cap Readers : nops - WriterOps < MaxOps - 1 /\ StartGet(p, K1)
  \/ \E p \in Alive \cap {Writer} : WriterOps = 0 /\ StartPurge(p)
  \/ \E p \in Alive : GetSteps(p) \/ DoSteps(p) \/ SetSteps(p) \/ PurgeSteps(p)

SpecPurge == Init /\ [][NextPurge]_vars

\* the steps of goroutine p in the calls it has begun, while the process lives
Run(p) ==
  p \in Alive /\ (GetSteps(p) \/ DoSteps(p) \/ SetSteps(p) \/ PurgeSteps(p))

\* the same under a fair scheduler: a goroutine that can take a step, the
\* return of its loader included, takes one in the end
SpecPurgeFair == SpecPurge /\ \A p \in Procs : WF_vars(Run(p))

\* concurrent GetIFPresent calls on a cache with a loader; the producers run
\* in goroutines of their own
NextIfPresent ==
  \/ Tick
  \/ \E p \in Readers : StartGetIFPresent(p, K1)
  \/ \E p \in Procs :
       \/ GetSteps(p) \/ SetSteps(p)
       \/ DoLock(p) \/ DoCheck(p) \/ DoGo(p) \/ LoaderReturn(p)
       \/ CallDone(p) \/ CallLock(p) \/ CallDelete(p)

SpecIfPresent == Init /\ [][NextIfPresent]_vars

\* one goroutine calls Get on a cache with a loader, one call after the other
NextSeqLoad ==
  \/ Tick
  \/ StartGet(1, K1)
  \/ GetSteps(1) \/ DoLock(1) \/ DoCheck(1) \/ LoaderReturn(1)
  \/ CallDone(1) \/ CallLock(1) \/ CallDelete(1) \/ SetSteps(1)

SpecSeqLoad == Init /\ [][NextSeqLoad]_vars

\* a cache with a loader and an on-added hook that holds one entry
InitSeqStore ==
  /\ items = [k \in Keys |-> IF k = K1 THEN NewItem(OldVal, DefTTL, 0) ELSE NoItem]
  /\ now = 0
  /\ cttl = DefTTL
  /\ hasLoader = TRUE
  /\ hasAdded = TRUE
  /\ InitLocks

\* one goroutine writes, removes, purges and reads the store, one operation
\* after the other, as TestRemove and TestPurge do
NextSeqStore ==
  \/ Tick
  \/ \E k \in Keys : StartSet(1, k, NewVal) \/ StartSetWithExpire(1, k, NewVal, LongTTL)
  \/ \E k \in Keys : StartRemove(1, k) \/ StartHas(1, k)
  \/ StartPurge(1)
  \/ \E chk \in {0, 1} : StartLen(1, chk) \/ StartKeys(1, chk)
  \/ SetULock(1) \/ SetSteps(1) \/ HookSteps(1)
  \/ RemoveSteps(1) \/ PurgeSteps(1) \/ ReadSteps(1)

SpecSeqStore == InitSeqStore /\ [][NextSeqStore]_vars

\* one goroutine runs every operation of the cache, one call after the other;
\* the clock moves between the calls and while the loader or the hook runs,
\* so that each call of the cache sees one time
NextSeqAll ==
  \/ gr[1].pc \in {"idle", "in_loader", "in_added"} /\ Tick
  \/ \E k \in Keys : StartGet(1, k) \/ StartSet(1, k, NewVal)
  \/ \E k \in Keys : StartUpdateWithExpire(1, k, 0)
  \/ \E k \in Keys : StartRemove(1, k) \/ StartHas(1, k)
  \/ StartPurge(1)
  \/ \E chk \in {0, 1} : StartLen(1, chk) \/ StartKeys(1, chk)
  \/ GetSteps(1) \/ DoLock(1) \/ DoCheck(1) \/ LoaderReturn(1) \/ CallDone(1)
  \/ CallLock(1) \/ CallDelete(1)
  \/ SetULock(1) \/ SetSteps(1) \/ HookSteps(1) \/ UpdateLock(1)
  \/ RemoveSteps(1) \/ PurgeSteps(1) \/ ReadSteps(1)

SpecSeqAll == InitSeqStore /\ [][NextSeqAll]_vars

\* goroutine 1 calls Get; the other goroutines call Get only after a producer
\* has returned (c.wg.Done() is behind it)
NextFresh ==
  \/ Tick
  \/ StartGet(1, K1)
  \/ \E p \in Procs \ {1} : (\E c \in DOMAIN calls : calls[c].done) /\ StartGet(p, K1)
  \/ \E p \in Procs : GetSteps(p) \/ DoSteps(p) \/ SetSteps(p)

SpecFresh == Init /\ [][NextFresh]_vars

\* a cache with an on-added hook, with a loader or without one, that holds one
\* expired entry
InitAll ==
  /\ items = [k \in Keys |-> IF k = K1 THEN NewItem(OldVal, DefTTL, 0) ELSE NoItem]
  /\ now = MaxTime
  /\ cttl = DefTTL
  /\ hasLoader \in BOOLEAN
  /\ hasAdded = TRUE
  /\ InitLocks

\* every step a goroutine can take inside an operation of the cache
Step(p) ==
  \/ GetSteps(p) \/ DoSteps(p) \/ SetULock(p) \/ SetSteps(p) \/ HookSteps(p)
  \/ UpdateLock(p) \/ RemoveSteps(p) \/ PurgeSteps(p) \/ ReadSteps(p)

\* the goroutines that have not called the cache yet
Fresh == {p \in Alive : gr[p].op = "none"}

\* each goroutine calls one operation of the cache on one key, all of them at
\* the same time
NextAll ==
  \/ \E p \in Fresh : StartGet(p, K1) \/ StartSet(p, K1, NewVal)
  \/ \E p \in Fresh : StartSetWithExpire(p, K1, NewVal, LongTTL)
  \/ \E p \in Fresh : StartUpdateWithExpire(p, K1, 0)
  \/ \E p \in Fresh : StartRemove(p, K1) \/ StartPurge(p) \/ StartHas(p, K1)
  \/ \E p \in Fresh, chk \in {0, 1} : StartLen(p, chk)
  \/ \E p \in Fresh : StartKeys(p, 1)
  \/ \E p \in Alive : Step(p)

SpecAll == InitAll /\ [][NextAll]_vars

\* goroutine 1 calls Update on a stored key once, while the other goroutines
\* call Set and SetWithExpire on it
NextUpdateSet ==
  \/ Tick
  \/ gr[1].op = "none" /\ StartUpdateWithExpire(1, K1, 0)
  \/ \E p \in Procs \ {1} : StartSet(p, K1, NewVal)
  \/ \E p \in Procs \ {1}, d \in Durations : StartSetWithExpire(p, K1, NewVal, d)
  \/ \E p \in Procs : UpdateLock(p) \/ GetSteps(p) \/ SetULock(p) \/ SetSteps(p)

SpecUpdateSet == InitStored /\ [][NextUpdateSet]_vars

\* a cache that holds one entry, built with a loader or without one
InitMiss ==
  /\ items = [k \in Keys |-> IF k = K1 THEN NewItem(OldVal, DefTTL, 0) ELSE NoItem]
  /\ now = 0
  /\ cttl = DefTTL
  /\ hasLoader \in BOOLEAN
  /\ hasAdded = FALSE
  /\ InitLocks

\* every goroutine calls Get on the stored key, before and after it expires
SpecMiss == InitMiss /\ [][NextLoad]_vars

\* goroutine 1 calls Update on a stored key once, while the other goroutines
\* call Get, Remove and Purge
NextUpdateRace ==
  \/ ~Crashed /\ Tick
  \/ \E p \in Alive \cap {1} : gr[p].op = "none" /\ StartUpdateWithExpire(p, K1, 0)
  \/ \E p \in Alive \ {1} : StartGet(p, K1) \/ StartRemove(p, K1) \/ StartPurge(p)
  \/ \E p \in Alive :
       \/ UpdateLock(p) \/ GetSteps(p) \/ DoSteps(p) \/ SetSteps(p)
       \/ RemoveSteps(p) \/ PurgeSteps(p)

SpecUpdateRace == InitMiss /\ [][NextUpdateRace]_vars

\* ------------------------------------------------------------- helpers
\* the positions inside c.set
SetPcs == {"set_rd", "set_lock", "set_write", "set_added", "in_added", "set_ret"}

\* p is a primary caller whose call record has not been removed yet
Producing(p, k) ==
  /\ gr[p].key = k
  /\ \/ gr[p].pc \in {"in_loader", "call_done", "call_lock", "call_del"}
     \/ gr[p].pc \in SetPcs /\ gr[p].ret = "Get"

\* p is inside the loader function
InLoader(p, k) == gr[p].key = k /\ gr[p].pc = "in_loader"

\* p has returned from Get
Returned(p) == gr[p].pc = "idle" /\ gr[p].op = "Get"

ResultOf(c) == [val |-> calls[c].val, err |-> calls[c].err]

\* ---------------------------------------------------------------- C1
\* C1: under any interleaving of Get with Set, Update, Remove and expiry, at
\* most one goroutine is inside the loader for a key, at most one call record
\* per key is live (made and not yet removed), and it is the one in the map.
SingleFlight ==
  \A k \in Keys :
    /\ Cardinality({p \in Procs : InLoader(p, k)}) <= 1
    /\ Cardinality({p \in Procs : Producing(p, k)}) <= 1
    /\ \A p \in Procs : Producing(p, k) => gm[k] = gr[p].cid

\* a load in flight with a waiter on it, after the writer's operation and a tick
SingleFlightWitness ==
  /\ InLoader(1, K1)
  /\ gr[2].pc = "do_wait" /\ gr[2].cid = gr[1].cid
  /\ gr[Writer].how = "write"
  /\ now > 0

\* ---------------------------------------------------------------- C3
\* C3: a caller that joined a call record returns, after the producer has
\* finished, the pair the producer returned, the same pair the primary returns.
WaitersShareResult ==
  \A p \in Procs :
    (Returned(p) /\ gr[p].how = "wait") =>
      /\ calls[gr[p].cid].done
      /\ gr[p].res = ResultOf(gr[p].cid)
      /\ \A q \in Procs :
           (Returned(q) /\ gr[q].how = "primary" /\ gr[q].cid = gr[p].cid)
             => gr[q].res = gr[p].res

\* a waiter and its primary have both returned a loaded value
WaitersShareResultWitness ==
  /\ Returned(1) /\ gr[1].how = "primary"
  /\ Returned(2) /\ gr[2].how = "wait" /\ gr[2].cid = gr[1].cid
  /\ gr[2].res.val \in LoadVals

\* ---------------------------------------------------------------- C2
\* the loader invocation of call record c has returned a value
Succeeded(c) == calls[c].lval \in LoadVals

\* C2 as claimed: while no TTL has elapsed, the loader is invoked once in all
\* for the key, and every Get returns that one invocation's result, a value
\* or an error.
LoaderInvokedOnce ==
  now <= DefTTL =>
    /\ loads[K1] <= 1
    /\ \A p \in Procs :
         Returned(p) =>
           gr[p].res = [val |-> calls[1].lval, err |-> calls[1].lerr]

\* C2 amended: while no TTL has elapsed, an invocation that returned a value is
\* the only one if it was the first and in any case the last one, and every Get
\* that returns a value returns that value; a Get that ran or joined an
\* invocation returns that invocation's result, so that a failed invocation's
\* error goes to its callers only.
LoaderInvokedOnceOnSuccess ==
  now <= DefTTL =>
    /\ \A c \in 1..Len(calls) : Succeeded(c) => c = Len(calls)
    /\ Len(calls) >= 1 /\ Succeeded(1) => loads[K1] = 1
    /\ loads[K1] = Len(calls)
    /\ \A p \in Procs :
         Returned(p) =>
           /\ gr[p].how \in {"wait", "primary"} =>
                calls[gr[p].cid].done /\ gr[p].res = ResultOf(gr[p].cid)
           /\ gr[p].res.err = ErrNil =>
                Succeeded(Len(calls)) /\ gr[p].res.val = calls[Len(calls)].lval

\* three Gets have returned the value of the one invocation: its primary, a
\* waiter, and a caller that found the value in the store
LoaderInvokedOnceWitness ==
  /\ now <= DefTTL
  /\ loads[K1] = 1 /\ Succeeded(1)
  /\ \A p \in Procs : Returned(p) /\ gr[p].res = [val |-> calls[1].lval, err |-> ErrNil]
  /\ \E p \in Procs : gr[p].how = "wait"
  /\ \E p \in Procs : gr[p].how \in {"hit", "dohit"}

\* ---------------------------------------------------------------- C9
\* C9: when the loader returns an error, the primary caller and every waiter
\* return the zero value with that error, and from the loader's return to the
\* removal of the call record the entry of the key is as it was when the call
\* record was made.
LoaderErrorPassedThrough ==
  \A p \in Procs :
    LET c == gr[p].cid
    IN  /\ (Returned(p) /\ gr[p].how \in {"wait", "primary"} /\ calls[c].lerr # ErrNil)
             => gr[p].res = [val |-> 0, err |-> calls[c].lerr]
        /\ (gr[p].pc \in {"call_done", "call_lock", "call_del"} /\ calls[c].lerr # ErrNil)
             => items[gr[p].key] = calls[c].pre

\* the primary and a waiter have returned the loader's error
LoaderErrorWitness ==
  /\ Returned(1) /\ gr[1].how = "primary"
  /\ Returned(2) /\ gr[2].how = "wait" /\ gr[2].cid = gr[1].cid
  /\ gr[1].res = [val |-> 0, err |-> LoadErr]
  /\ gr[2].res = [val |-> 0, err |-> LoadErr]
  /\ ~items[K1].ok

\* --------------------------------------------------------------- C10
\* C10: a panic in the loader becomes an error result: no goroutine leaves Get
\* by the panic, and no call record stays in the map without a producer that
\* will release and remove it.
PanicContained ==
  /\ \A p \in Procs : gr[p].pc # "panicked"
  /\ \A k \in Keys : gm[k] # NoCall => \E p \in Procs : Producing(p, k)

\* ---------------------------------------------------------------- C4
AllIdle == \A p \in Procs : gr[p].pc = "idle"

\* C4: once all the Update calls started have returned, and the TTL of the key
\* has not elapsed, the value is the initial one plus IncBy for every call.
NoLostUpdates ==
  (AllIdle /\ now <= DefTTL) =>
    items[K1].ok /\ items[K1].val = OldVal + nops * IncBy

\* three goroutines have each returned from one Update
NoLostUpdatesWitness ==
  /\ AllIdle /\ now <= DefTTL /\ nops = 3
  /\ \A p \in Procs : gr[p].op = "Update"
  /\ items[K1].val = OldVal + 3 * IncBy

\* ---------------------------------------------------------------- C5
\* C5: a Get that goroutine 2 makes after its Set has returned, and before the
\* TTL of the entry that Set wrote has elapsed, returns the value set.
FreshEntrySurvives ==
  (Returned(2) /\ ~expired(gr[2].item, now)) =>
    gr[2].res = [val |-> NewVal, err |-> ErrNil]

\* ---------------------------------------------------------------- C6
NotExpired(it) == it.ok /\ ~(it.ttl > 0 /\ now - it.added > it.ttl)

\* C6: without a loader, Get returns (value, nil) when the entry it reads is
\* there and not (ttl > 0 and now - added > ttl), and (zero, ErrNotFound) when
\* the entry is expired or absent.
GetFollowsExpiry ==
  [][\A p \in Procs :
       LET it == items[gr[p].key]
       IN  /\ (gr[p].pc = "get_rd" /\ gr'[p].pc # "get_rd" /\ NotExpired(it)) =>
                /\ gr'[p].pc = "idle"
                /\ gr'[p].res = [val |-> it.val, err |-> ErrNil]
           /\ (gr[p].pc = "get_rd" /\ gr'[p].pc # "get_rd" /\ ~NotExpired(it)) =>
                \/ gr'[p].pc = "get_lock" /\ it.ok
                \/ /\ gr'[p].pc = "idle" /\ ~it.ok
                   /\ gr'[p].res = [val |-> 0, err |-> ErrNotFound]
           /\ (gr[p].pc = "get_del" /\ gr'[p].pc # "get_del") =>
                /\ gr'[p].pc = "idle"
                /\ gr'[p].res = [val |-> 0, err |-> ErrNotFound]
                /\ ~items'[gr[p].key].ok]_vars

\* Get has returned ErrNotFound for the entry this goroutine had set, now expired
GetFollowsExpiryWitness ==
  /\ Returned(1) /\ gr[1].res = [val |-> 0, err |-> ErrNotFound]
  /\ gr[1].item.ok /\ gr[1].item.ttl > 0 /\ now - gr[1].item.added > gr[1].item.ttl
  /\ ~items[K1].ok

\* ---------------------------------------------------------------- C7
\* p has returned from SetWithExpire or Set
Wrote(p) == gr[p].pc = "idle" /\ gr[p].op \in {"Set", "SetWithExpire"}

ZeroNeverExpires ==
  (Wrote(1) /\ gr[1].op = "SetWithExpire" /\ gr[1].argd = 0) =>
    items[K1].ok /\ ~expired(items[K1], now)

\* --------------------------------------------------------------- C11
\* p is inside Group.Do or Group.call
InDo(p) ==
  \/ gr[p].pc \in {"do_chk", "do_wait", "in_loader", "call_done", "call_lock", "call_del"}
  \/ gr[p].pc \in {"get_rd", "get_lock", "get_del"} /\ gr[p].ret = "Do"
  \/ gr[p].pc \in SetPcs /\ gr[p].ret = "Get"

ReadsItems(p) ==
  /\ gr[p].pc \in {"get_rd", "set_rd", "has_rd", "len_rd", "keys_rd"}
  /\ gr'[p] # gr[p]

\* C12: a step that reads the mapping is taken while no goroutine is inside
\* an exclusive section of the store lock, and a step that changes the
\* mapping is taken by the goroutine that holds the store lock exclusively.
LockedAccess ==
  [][\A p \in Procs :
       /\ ReadsItems(p) => mtxW = NoProc
       /\ (items' # items /\ gr'[p] # gr[p]) => mtxW = p]_vars

\* --------------------------------------------------------------- C13
\* C13: while a goroutine is inside the addedFunc hook the entry has been
\* written and the goroutine holds no lock of the cache: not the store lock,
\* not the update lock (shared or exclusive), not the group lock; this for the
\* writes of Set, SetWithExpire, Update and the loader's write-back alike.
HookOutsideLocks ==
  \A p \in Procs :
    gr[p].pc = "in_added" =>
      /\ mtxW # p /\ gmtx # p
      /\ umtxW # p /\ p \notin umtxR

\* --------------------------------------------------------------- C14
\* p holds none of the cache's locks
HoldsNoLock(p) == mtxW # p /\ gmtx # p /\ umtxW # p /\ p \notin umtxR

\* C14: a goroutine inside the loader holds neither the group lock nor the
\* store lock nor the update lock, and no goroutine working on another key
\* waits for its call record; so nothing an operation on another key needs is
\* kept from it by the loader in progress.
LoaderBlocksOwnKeyOnly ==
  \A p \in Procs :
    gr[p].pc = "in_loader" =>
      /\ HoldsNoLock(p)
      /\ \A q \in Procs \ {p} :
           (gr[q].key # gr[p].key /\ gr[q].pc = "do_wait") => gr[q].cid # gr[p].cid

\* goroutine 1 is still inside the loader for K1, entered first, while a
\* Get(K2) ran a loader of its own to the end and a write on K2 returned
LoaderBlocksOwnKeyOnlyWitness ==
  /\ InLoader(1, K1) /\ gr[1].cid = 1
  /\ \E q \in Procs : /\ Returned(q) /\ gr[q].key = K2 /\ gr[q].how = "primary"
                       /\ gr[q].res.val \in LoadVals
  /\ \E q \in Procs : gr[q].pc = "idle" /\ gr[q].key = K2 /\ gr[q].how = "write"

\* --------------------------------------------------------------- C15
\* p has returned from a Get that ran or joined a load that a Purge overtook
\* while its loader was running
OldLoadReturned(p, how) ==
  Returned(p) /\ gr[p].how = how /\ gr[p].cid # NoCall /\ calls[gr[p].cid].purged

\* the callers of a load that Purge overtook get that load's result
OldLoadDelivered ==
  \A p \in Procs :
    (OldLoadReturned(p, "wait") \/ OldLoadReturned(p, "primary")) =>
      calls[gr[p].cid].done /\ gr[p].res = ResultOf(gr[p].cid)

\* the primary of a load that Purge overtook has returned a value, no other
\* load was made, and the TTL of the loaded entry has not elapsed
OldLoadFinished(p) ==
  /\ OldLoadReturned(p, "primary") /\ gr[p].res.err = ErrNil
  /\ loads[K1] = 1 /\ ~expired(gr[p].item, now)

\* C15 as claimed: the callers of a load that Purge overtook get its result,
\* and once that load has finished, with no other write, the key is absent.
PurgeDropsOldLoad ==
  /\ OldLoadDelivered
  /\ \A p \in Procs : OldLoadFinished(p) => ~items[K1].ok

\* C15 amended: the callers of a load that Purge overtook get its result, and
\* once that load has finished, with no other write, the key holds the entry
\* the load wrote, in the mapping that Purge made.
PurgeKeepsOldLoad ==
  /\ OldLoadDelivered
  /\ \A p \in Procs : OldLoadFinished(p) => items[K1] = gr[p].item /\ items[K1].ok

\* Purge has returned, then the load it overtook; its primary and a waiter
\* have the loaded value and the key holds it
PurgeKeepsOldLoadWitness ==
  /\ gr[Writer].op = "Purge" /\ gr[Writer].pc = "idle"
  /\ OldLoadFinished(1)
  /\ OldLoadReturned(2, "wait") /\ gr[2].cid = gr[1].cid /\ gr[2].res = gr[1].res
  /\ items[K1].ok /\ items[K1].val = gr[1].res.val

\* --------------------------------------------------------------- C16
\* p is in, or back from, a GetIFPresent call
NonBlocking(p) == gr[p].op = "GetIFPresent"

\* the goroutines that run, or are about to start, a producer for k
Producers(k) ==
  {p \in Procs : Producing(p, k) \/ (gr[p].pc = "do_go" /\ gr[p].key = k)}

\* C16: a GetIFPresent caller never waits on a call record and never runs
\* the loader itself, and returns ErrNotFound when it missed the store; a
\* key has at most one producer, the one of the record in the map, so that a
\* caller that finds a load in flight starts none; and while no TTL has
\* elapsed, a producer that finished with a value has written it to the store,
\* no load follows it, and a caller that hits the store returns that value.
NonBlockingLoad ==
  /\ \A p \in Procs :
       NonBlocking(p) =>
         /\ gr[p].pc \notin {"do_wait", "in_loader", "call_done", "call_lock", "call_del"}
         /\ gr[p].pc \notin SetPcs
         /\ (gr[p].pc = "idle" /\ gr[p].how = "nowait") =>
              gr[p].res = [val |-> 0, err |-> ErrNotFound]
  /\ \A k \in Keys :
       /\ Cardinality(Producers(k)) <= 1
       /\ gm[k] # NoCall => \E p \in Producers(k) : gr[p].cid = gm[k]
  /\ now <= DefTTL =>
       \A c \in 1..Len(calls) :
         (calls[c].done /\ calls[c].err = ErrNil) =>
           /\ c = Len(calls)
           /\ items[K1].ok /\ items[K1].val = calls[c].val
           /\ \A p \in Procs :
                (NonBlocking(p) /\ gr[p].pc = "idle" /\ gr[p].how \in {"hit", "dohit"})
                  => gr[p].res = [val |-> calls[c].val, err |-> ErrNil]

\* one caller found the load in flight and returned ErrNotFound without
\* starting a producer; the producer, in its own goroutine, has finished; a
\* later GetIFPresent has returned the loaded value from the store
NonBlockingLoadWitness ==
  /\ now <= DefTTL /\ loads[K1] = 1
  /\ NonBlocking(2) /\ gr[2].pc = "idle" /\ gr[2].how = "nowait" /\ gr[2].cid = NoCall
  /\ gr[Writer].op = "go" /\ gr[Writer].pc = "idle" /\ calls[1].done
  /\ NonBlocking(1) /\ gr[1].pc = "idle" /\ gr[1].how = "hit"
  /\ gr[1].res = [val |-> calls[1].val, err |-> ErrNil] /\ calls[1].val \in LoadVals

\* --------------------------------------------------------------- C17
\* the TTL that C17 expects for a value loaded with expiration x
LoadedTTL(x) == IF ~x.isnil /\ x.d >= 1 THEN x.d ELSE cttl

\* the last load returned a value and the entry made from it has not expired
LoadedEntryLive ==
  /\ Len(calls) >= 1 /\ Succeeded(Len(calls))
  /\ gr[1].item.ok /\ gr[1].item.val = calls[Len(calls)].lval
  /\ ~expired(gr[1].item, now)

NilExpiryNeverExpires ==
  \A p \in Procs :
    (/\ Returned(p) /\ gr[p].how = "primary" /\ gr[p].res.err = ErrNil
     /\ calls[gr[p].cid].lexp = NilExp)
      => items[K1].ok /\ ~expired(items[K1], now)

\* --------------------------------------------------------------- C19
\* the entries of the store
Stored == {k \in Keys : items[k].ok}

\* goroutine p has returned from operation op, which it ran right after prev
After(p, prev, op) ==
  gr[p].pc = "idle" /\ gr[p].op = op /\ gr[p].prev = prev

\* C19: when a Purge has returned and nothing runs beside it, the store is
\* empty and the default TTL, the loader and the on-added hook are the ones
\* the cache was built with; the Has, Len(false) and Keys(false) that follow
\* it return false, 0 and no key, and the Set that follows it stores the
\* original default TTL.
PurgeEmpties ==
  LET g == gr[1]
  IN  /\ (g.pc = "idle" /\ g.op = "Purge") =>
            /\ Stored = {}
            /\ cttl = DefTTL /\ hasLoader /\ hasAdded
      /\ After(1, "Purge", "Has") => g.res.val = Bool(FALSE)
      /\ (After(1, "Purge", "Len") /\ g.argd = 0) => g.res.val = 0
      /\ (After(1, "Purge", "Keys") /\ g.argd = 0) => g.keys = {}
      /\ After(1, "Purge", "Set") =>
            /\ items[g.key].ok /\ items[g.key].val = g.arg
            /\ items[g.key].ttl = DefTTL

\* Has(K1) has answered false right after a Purge, at a time when the entry
\* the cache started with had not expired
PurgeEmptiesWitness ==
  /\ After(1, "Purge", "Has") /\ gr[1].key = K1 /\ gr[1].res.val = 0
  /\ ~expired(NewItem(OldVal, DefTTL, 0), now)

\* --------------------------------------------------------------- C20
\* goroutine p returns from operation op in this step
Returns(p, op) ==
  gr[p].op = op /\ gr[p].pc # "idle" /\ gr'[p].pc = "idle"

\* C20: the step in which Remove(k) returns deletes the entry of k, expired or
\* not, and leaves the other entries as they are; it changes nothing when k
\* has no entry (a second Remove(k) included) and makes the store one entry
\* smaller when it has one.  The Has(k) that follows it returns false and the
\* Len(false) that follows it returns the number of entries left.
RemoveDeletes ==
  /\ [][Returns(1, "Remove") =>
          /\ items' = [items EXCEPT ![gr[1].key] = NoItem]
          /\ ~items[gr[1].key].ok => items' = items
          /\ items[gr[1].key].ok =>
                Cardinality(Stored') = Cardinality(Stored) - 1]_vars
  /\ [](After(1, "Remove", "Remove") /\ gr[1].pkey = gr[1].key
          => ~items[gr[1].key].ok)
  /\ [](After(1, "Remove", "Has") /\ gr[1].pkey = gr[1].key
          => gr[1].res.val = Bool(FALSE))
  /\ []((After(1, "Remove", "Len") /\ gr[1].argd = 0)
          => gr[1].res.val = Cardinality(Stored) /\ ~items[gr[1].pkey].ok)

\* Has(K1) has answered false right after Remove(K1) deleted an entry that was
\* expired, and the other key's entry is still there
RemoveDeletesWitness ==
  /\ After(1, "Remove", "Has") /\ gr[1].pkey = K1 /\ gr[1].key = K1
  /\ gr[1].res.val = 0 /\ ~items[K1].ok
  /\ items[K2].ok /\ now = MaxTime

\* --------------------------------------------------------------- C21
\* the operations that only look at the store
ReadOps == {"Has", "Len", "Keys"}

\* C21: no step of Has, Len or Keys, whatever the flag, changes the store,
\* starts a load or touches a call record; an entry leaves the store only in
\* a step of Get, Update, Remove or Purge; and Keys(false) lists every entry
\* of the store, the expired ones included.
ReadsKeepStore ==
  /\ [][\A p \in Procs :
          (gr'[p] # gr[p] /\ gr'[p].op \in ReadOps) =>
            items' = items /\ loads' = loads /\ calls' = calls /\ gm' = gm]_vars
  /\ [][\A k \in Keys :
          (items[k].ok /\ ~items'[k].ok) =>
            \/ gr[1].op \in {"Get", "Update", "Remove"} /\ gr[1].key = k
            \/ gr[1].op = "Purge"]_vars
  /\ [][(Returns(1, "Keys") /\ gr[1].argd = 0) => Stored \subseteq gr'[1].keys]_vars

\* Keys(false) has listed K1 right after Has(K1) found its entry expired, and
\* the expired entry is still in the store
ReadsKeepStoreWitness ==
  /\ After(1, "Has", "Keys") /\ gr[1].pkey = K1 /\ gr[1].argd = 0
  /\ K1 \in gr[1].keys
  /\ items[K1].ok /\ expired(items[K1], now)

\* --------------------------------------------------------------- C22
\* the keys whose entries are not expired
Live == {k \in Stored : ~expired(items[k], now)}

\* the keys that Keys(chk) and Len(chk) are about
Listed(chk) == IF chk = 0 THEN Stored ELSE Live

\* C22: Keys(false) returns the keys of the store and Keys(true) those whose
\* entries are not expired; Len returns the number of keys that Keys returns
\* for the same flag in the same state; Has(k) returns true exactly when k is
\* in the store with an entry that is not expired.
ReadsAnswerStore ==
  [][/\ Returns(1, "Keys") => gr'[1].keys = Listed(gr[1].argd)
     /\ Returns(1, "Len") => gr'[1].res.val = Cardinality(Listed(gr[1].argd))
     /\ Returns(1, "Has") => gr'[1].res.val = Bool(gr[1].key \in Live)]_vars

\* Len(true) has returned 1 for a store of two entries, one of them expired
ReadsAnswerStoreWitness ==
  /\ gr[1].pc = "idle" /\ gr[1].op = "Len" /\ gr[1].argd = 1
  /\ gr[1].res.val = 1
  /\ Cardinality(Stored) = 2 /\ Cardinality(Live) = 1

\* --------------------------------------------------------------- C23
\* goroutine p is in Get's own call of c.get, and the entry of its key is there
\* and not expired
AtHit(p) ==
  /\ gr[p].op = "Get" /\ gr[p].pc = "get_rd" /\ gr[p].ret = "Get"
  /\ gr[p].key \in Live

\* C23: a Get that finds an unexpired entry returns its value in that step and
\* starts no load; a load starts only in the locked section of Do, by a caller
\* whose look into the store under the group lock missed, when the key has no
\* call record and a loader is configured; without a loader nothing is ever
\* started and every Get that misses returns ErrNotFound.
LoadOnlyOnMiss ==
  /\ [][\A p \in Procs :
          (AtHit(p) /\ gr'[p] # gr[p]) =>
            /\ gr'[p].pc = "idle"
            /\ gr'[p].res = [val |-> items[gr[p].key].val, err |-> ErrNil]
            /\ loads' = loads /\ calls' = calls]_vars
  /\ [][\A p \in Procs :
          ((loads'[gr[p].key] # loads[gr[p].key] /\ gr'[p] # gr[p])
             \/ (gr'[p].pc = "in_loader" /\ gr[p].pc # "in_loader")) =>
            /\ gr[p].pc = "do_chk" /\ gmtx = p
            /\ gr[p].gerr = ErrNotFound
            /\ gm[gr[p].key] = NoCall
            /\ hasLoader
            /\ loads'[gr[p].key] = loads[gr[p].key] + 1]_vars
  /\ [](~hasLoader =>
          /\ calls = << >>
          /\ \A k \in Keys : loads[k] = 0 /\ gm[k] = NoCall
          /\ \A p \in Procs :
               (Returned(p) /\ gr[p].how # "hit") =>
                 gr[p].res = [val |-> 0, err |-> ErrNotFound])

\* a Get that had missed the store has found the value under the group lock,
\* loaded by another Get in between, and has returned it without a load of
\* its own
LoadOnlyOnMissWitness ==
  \E p \in Procs :
    /\ Returned(p) /\ gr[p].how = "dohit"
    /\ loads[K1] = 1 /\ gr[p].res.val \in LoadVals

\* --------------------------------------------------------------- C24
\* goroutine p writes the store in this step, from set
SetWrites(p) == gr[p].pc = "set_write" /\ gr'[p].pc # "set_write"

\* C24: the write of Set, Update and the loader's write-back puts the written
\* value into the entry of its key with the time of the write as insertion
\* time, whether the key had an entry or not, and leaves the other entries
\* alone; when Set or Update has returned, the entry of its key is the one it
\* wrote; no step of Has, Keys, Len or of a Get that hits changes an entry.
WritesRefresh ==
  /\ [][SetWrites(1) =>
          /\ gr[1].op \in {"Set", "Update", "Get"}
          /\ items'[gr[1].key].ok
          /\ items'[gr[1].key].val = gr[1].val
          /\ gr[1].op = "Set" => gr[1].val = gr[1].arg
          /\ items'[gr[1].key].added = now
          /\ \A k \in Keys \ {gr[1].key} : items'[k] = items[k]]_vars
  /\ [](gr[1].pc = "idle" /\ gr[1].op \in {"Set", "Update"} =>
          /\ items[gr[1].key] = gr[1].item
          /\ items[gr[1].key].added <= now)
  /\ [][(gr'[1] # gr[1] /\ (gr'[1].op \in ReadOps \/ AtHit(1))) =>
          items' = items]_vars

\* a Set has replaced an expired entry of K1: the entry has the new value, the
\* time of the write, and is not expired any more
WritesRefreshWitness ==
  /\ gr[1].pc = "idle" /\ gr[1].op = "Set" /\ gr[1].key = K1
  /\ now = MaxTime
  /\ items[K1] = NewItem(NewVal, DefTTL, now)
  /\ expired(NewItem(OldVal, DefTTL, 0), now)
  /\ K1 \in Live

\* --------------------------------------------------------------- C25
\* the value Update finds for key k: the stored one, or the zero value when k
\* has no entry or an expired one
Current(k) == IF k \in Live THEN items[k].val ELSE 0

\* C25: Update(k, calc) stores calc of the value of k's unexpired entry, and
\* calc of the zero value when k has no entry or an expired one; no step of
\* Update starts a load; a Get(k) that follows the Update and hits returns the
\* value the Update stored.
UpdateStoresCalc ==
  /\ [][(SetWrites(1) /\ gr[1].op = "Update") =>
          /\ items'[gr[1].key].ok
          /\ items'[gr[1].key].val = calc(Current(gr[1].key))]_vars
  /\ [][(gr'[1] # gr[1] /\ gr'[1].op = "Update") =>
          loads' = loads /\ calls' = calls]_vars
  /\ [](After(1, "Update", "Get") /\ gr[1].pkey = gr[1].key /\ gr[1].how = "hit"
          => gr[1].res = [val |-> gr[1].item.val, err |-> ErrNil])
  /\ [](gr[1].pc = "idle" /\ gr[1].op = "Update" =>
          items[gr[1].key].val = gr[1].item.val)

\* Get(K1) has returned calc(OldVal) right after Update(K1, calc) found the
\* entry with OldVal unexpired
UpdateStoresCalcWitness ==
  /\ After(1, "Update", "Get") /\ gr[1].pkey = K1 /\ gr[1].key = K1
  /\ gr[1].how = "hit"
  /\ gr[1].res = [val |-> calc(OldVal), err |-> ErrNil]
  /\ loads[K1] = 0

\* --------------------------------------------------------------- C26
\* C26: under a fair scheduler and with a loader that returns, every Get that
\* has been called returns, also while a Purge runs.
GetsReturn ==
  \A p \in Procs :
    (gr[p].op = "Get" /\ gr[p].pc # "idle") ~> (gr[p].op = "Get" /\ gr[p].pc = "idle")

\* --------------------------------------------------------------- C27
\* C27: a Get that starts after the producer of a call record has returned
\* never returns by joining that record: it hits the store or gets the result
\* of a load started after it.  (Goroutines 2 and 3 start only after the
\* first record, the one of goroutine 1, is done.)
FreshCycle ==
  \A p \in Procs \ {1} :
    (Returned(p) /\ gr[p].how = "wait") => gr[p].cid # 1

\* --------------------------------------------------------------- C28
\* the goroutines inside the loader for key k
Loading(k) == {p \in Procs : InLoader(p, k)}

\* C28: also when Purge runs, no loader invocation for a key starts while
\* another one for that key has not returned.
SingleFlightAcrossPurge ==
  \A k \in Keys : \A p, q \in Loading(k) : p = q

\* --------------------------------------------------------------- C29
\* goroutine p is between g.mtx.Lock() and g.mtx.Unlock() in Do or in call
InGroupLock(p) ==
  \/ gr[p].pc \in {"do_chk", "call_del"}
  \/ gr[p].pc \in {"get_rd", "get_lock", "get_del"} /\ gr[p].ret = "Do"

\* C29: at most one goroutine is inside the sections of Do and call that the
\* group lock protects, the goroutine inside is the holder of the lock, and
\* no goroutine unlocks the group lock while it is not locked.
GroupLockExclusive ==
  /\ \A p, q \in Procs : (InGroupLock(p) /\ InGroupLock(q)) => p = q
  /\ \A p \in Procs : InGroupLock(p) => gmtx = p
  /\ ~Crashed

\* --------------------------------------------------------------- C30
\* goroutine p holds the update lock
HoldsUmtx(p) == umtxW = p \/ p \in umtxR

\* C30: while the process lives, whenever a goroutine is inside an operation
\* some goroutine can take a step, so that no set of goroutines waits for
\* locks for ever; the holder of the store lock waits for no lock, and no
\* goroutine waits for the group lock while it holds the update lock or for
\* the update lock while it holds the group lock.
NoLockDeadlock ==
  ~Crashed =>
    /\ (\E p \in Procs : gr[p].pc # "idle") => ENABLED (\E p \in Procs : Step(p))
    /\ \A p \in Procs :
         /\ mtxW = p => gr[p].pc \in {"get_del", "set_write", "rm_del", "purge_init"}
         /\ HoldsUmtx(p) => gr[p].pc \notin {"do_lock", "call_lock"}
         /\ gmtx = p => gr[p].pc \notin {"set_ulock", "upd_lock"}

\* an Update waits for the update lock, which a Set holds that waits for the
\* store lock, which a Purge holds
NoLockDeadlockWitness ==
  \E p, q, r \in Procs :
    /\ gr[p].pc = "upd_lock"
    /\ q \in umtxR /\ gr[q].pc = "set_lock"
    /\ mtxW = r /\ gr[r].pc = "purge_init"

\* --------------------------------------------------------------- C31
\* goroutine p is in an Update, past the read of the current value and before
\* the end of its write
InUpdateRMW(p) ==
  /\ gr[p].op = "Update"
  /\ gr[p].pc \in {"get_lock", "get_del", "set_rd", "set_lock", "set_write"}

\* C31: between the read and the write of an Update of key k no Set or
\* SetWithExpire changes the entry of k; and once the Update and a Set of the
\* value w have both returned, with nothing expired, k holds w or calc(w),
\* never calc of the value from before the Set.
UpdateAtomicWithSet ==
  /\ [][\A p \in Procs :
          (InUpdateRMW(p) /\ gr'[p] = gr[p]) =>
            items'[gr[p].key] = items[gr[p].key]]_vars
  /\ []((/\ gr[1].pc = "idle" /\ gr[1].op = "Update"
         /\ \E q \in Procs : Wrote(q)
         /\ now <= DefTTL)
          => items[K1].ok /\ items[K1].val \in {NewVal, calc(NewVal)})

\* the Update and two Sets have returned and the Update has been applied to
\* the value a Set wrote
UpdateAtomicWithSetWitness ==
  /\ gr[1].pc = "idle" /\ gr[1].op = "Update"
  /\ \A q \in Procs \ {1} : Wrote(q)
  /\ now <= DefTTL
  /\ items[K1].val = calc(NewVal)

\* --------------------------------------------------------------- C32
\* goroutine q takes the step of Remove, of Purge or of the loader's
\* write-back that changes the store
ForeignWrite(q) ==
  /\ gr'[q] # gr[q]
  /\ \/ gr[q].pc \in {"rm_del", "purge_init"}
     \/ gr[q].pc = "set_write" /\ gr[q].ret = "Get"

\* C32: between the read and the write of an Update of key k, no Remove, no
\* Purge and no write-back of a loaded value changes the entry of k.
UpdateAtomicWithOthers ==
  [][\A p \in Procs :
       InUpdateRMW(p) =>
         \A q \in Procs \ {p} :
           ForeignWrite(q) => items'[gr[p].key] = items[gr[p].key]]_vars
====
